---- MODULE Spec2Model ----
(***************************************************************************)
(* Update/reload orchestrator of the HAProxy Ingress controller            *)
(* (pkg/haproxy/instance.go): the reconciliation tick (Update), the        *)
(* synchronous reload with its embedded and external strategies, the       *)
(* health state (up, failedSince), the leader-gated ACME scheduler and     *)
(* the on-demand certificate check (AcmeCheck).                            *)
(*                                                                         *)
(* The Config, Updater, Signer, LeaderElector and queue collaborators are  *)
(* not part of instance.go; what the orchestrator needs of them is         *)
(* modelled from their description in the specification.                   *)
(***************************************************************************)
EXTENDS Integers, FiniteSets, Sequences, TLC

\* ------------------------------------------------------------------ bounds
\* Largest value of the wall clock (time.Now()); 0 stands for a nil time.
MaxTime == 3
\* Number of distinct ACME storages.
NumStorages == 2
\* Largest number of dynamic changes pending between two ticks.
MaxCmds == 2
\* Largest number of workers the external haproxy reports in "show proc".
MaxWorkers == 2
MaxNotAfter == 2
MaxReplyLen == 4
IntBits == 8

Storages == 1..NumStorages
NilTime == 0

VARIABLES
    up,             \* instance.up
    failedSince,    \* instance.failedSince (NilTime = nil)
    config,         \* instance.config # nil
    opts,           \* instance.options (and config.Global() settings)
    cfg,            \* state of the Config collaborator
    now,            \* wall clock
    leader,         \* LeaderElector.IsLeader()
    stopped,        \* options.StopCh is closed
    acmeQueue,      \* items of options.AcmeQueue
    reloadNotified, \* options.ReloadQueue has a pending notification
    lastHealth,     \* last value given to metrics.UpdateSuccessful
    lock,           \* the callers' lock around Update and AcmeCheck
    pc,             \* position of the Update call
    cpc,            \* position of the AcmeCheck call
    rl,             \* the Reload call in progress / the last one made
    tk,             \* what the current (or last) tick did
    ck,             \* what the current (or last) AcmeCheck did
    hist            \* history across ticks

vars == <<up, failedSince, config, opts, cfg, now, leader, stopped, acmeQueue,
          reloadNotified, lastHealth, lock, pc, cpc, rl, tk, ck, hist>>

\* The hosts of the configuration, the common names of their certificates
\* and their TLS state: HasTLS(), TLSCommonName, TLSNotAfter.
Hosts == {"a.example.com"}
CommonNames == {"cn1", "cn2"}
TLSStates == [tls : BOOLEAN, cn : CommonNames, notAfter : 1..MaxNotAfter]

\* The maps from hostname to host of ItemsAdd() and ItemsDel().
HostMaps == UNION {[S -> TLSStates] : S \in SUBSET Hosts}
NoHosts == [h \in {} |-> [tls |-> FALSE, cn |-> "cn1", notAfter |-> 1]]

\* ------------------------------------------------------- initial records
CfgInit ==
    [ committed  |-> FALSE,   \* a Commit has been made (there is a previous config)
      pendReload |-> FALSE,   \* a pending change cannot be applied dynamically
      pendDyn    |-> 0,       \* pending changes that can be applied dynamically
      need       |-> {},      \* storages currently needing issuance
      needOld    |-> {},      \* the same, as of the last Commit
      inSession  |-> FALSE,   \* between SyncConfig and Commit
      hostsAdd   |-> NoHosts, \* Hosts().ItemsAdd()
      hostsDel   |-> NoHosts, \* Hosts().ItemsDel()
      hostsCommit |-> FALSE ] \* Hosts().HasCommit()

TkInit ==
    [ done        |-> FALSE,  \* Update has returned
      hadConfig   |-> FALSE,  \* i.config # nil in this tick
      changed     |-> FALSE,  \* the configuration changed since the previous tick
      prevTick    |-> FALSE,  \* a tick with a Config ran before this one
      afterFirst  |-> FALSE,  \* the previous tick was a first reload with 2 workers
      needReload  |-> FALSE,  \* at the start, the Config needs a reload
      afterAbort  |-> FALSE,  \* the previous tick was aborted while needing a reload
      outstanding |-> FALSE,  \* a reload failure was outstanding at the start
      skipped     |-> {},     \* storages skipped by non-leader ticks, at the start
      upAtStart   |-> FALSE,
      fsAtStart   |-> NilTime,
      acmeRan     |-> FALSE,  \* acmeUpdate got past its first guard
      sawLeader   |-> FALSE,  \* what IsLeader() answered
      signer      |-> FALSE,  \* acmeEnsureConfig called the Signer
      hasAccount  |-> FALSE,  \* what HasAccount() answered
      storagesUpd |-> FALSE,  \* what storages.Updated() answered
      skipLog     |-> FALSE,  \* "skipping acme update check" was logged
      queueAtStart |-> {},    \* the AcmeQueue at the start of the tick
      enq         |-> {},     \* storages given to AcmeQueue.Add
      enqLogged   |-> {},     \* storages whose enqueue was logged
      deq         |-> {},     \* storages given to AcmeQueue.Remove
      mapFailed   |-> FALSE,
      updaterRan  |-> FALSE,
      updated     |-> FALSE,
      cmdCnt      |-> 0,
      sorted      |-> FALSE,  \* SortChangedEndpoints was called
      shuffled    |-> FALSE,  \* ShuffleAllEndpoints was called
      wrote       |-> FALSE,  \* writeConfig was called
      writeFailed |-> FALSE,
      validated   |-> FALSE,  \* check() was called
      health      |-> 0,      \* calls of updateSuccessful
      failLogged  |-> FALSE,  \* "haproxy failed to reload" was logged
      commits     |-> 0,      \* calls of Config.Commit
      reloads     |-> 0,      \* synchronous calls of Reload
      notifies    |-> 0,      \* calls of ReloadQueue.Notify
      noop        |-> 0,      \* calls of IncUpdateNoop
      dyn         |-> 0,      \* calls of IncUpdateDynamic
      full        |-> 0,      \* calls of IncUpdateFull
      certRan     |-> FALSE,  \* updateCertExpiring was called
      certCleared |-> FALSE,  \* ClearCertExpire was called
      certOps     |-> {},     \* the calls of SetCertExpireDate (at = nil clears)
      defers      |-> << >> ] \* the deferred calls of haproxyUpdate

RlInit ==
    [ pc        |-> "none",
      external  |-> FALSE,
      upAtStart |-> FALSE,
      fsAtStart |-> NilTime,
      waited    |-> FALSE,    \* the first-contact wait loop was entered
      contact   |-> FALSE,    \* a "show proc" of the wait succeeded
      timers    |-> 0,        \* times the wait re-entered the loop after StopCh closed
      persisted |-> "none",   \* persistServersState: "none", "ok",
                              \* "retrieve_failed", "write_failed"
      retrieved |-> FALSE,    \* "show servers state" was sent
      stateFile |-> FALSE,    \* the state file was written
      sent      |-> FALSE,    \* "reload" was written to the master socket
      reloadOk  |-> FALSE,    \* ... and the command succeeded
      procs     |-> FALSE,    \* "show proc" was queried after "reload"
      procsOk   |-> FALSE,
      workers   |-> 0,
      result    |-> "none",   \* "none", "ok", or the error returned
      queued    |-> FALSE,    \* Reload was called by the reload queue
      fsRead    |-> NilTime,  \* updateSuccessful's read of failedSince
      raced     |-> FALSE ]   \* a queued Reload read the Config or wrote up or
                              \* failedSince between SyncConfig and Commit

CkInit ==
    [ done      |-> FALSE,
      err       |-> "none",
      count     |-> 0,
      sawLeader |-> FALSE,
      asked     |-> FALSE,    \* IsLeader() was queried
      signer    |-> FALSE,    \* acmeEnsureConfig called the Signer
      signerAsLeader |-> FALSE, \* ... while the replica was leader
      enq       |-> {},
      need      |-> {},       \* storages needing issuance when the scan ran
      inSession |-> FALSE ]   \* the Config was read between SyncConfig and Commit

\* One call of CalcIdleMetric: the reply it got and what it did with it.
IdleInit ==
    [ called   |-> FALSE,
      up       |-> FALSE,     \* i.up when it was called
      cmdOk    |-> FALSE,     \* "show info" returned no error
      msg      |-> << >>,     \* the reply, msg[0]
      found    |-> FALSE,     \* idleRegex matched
      atoiErr  |-> FALSE,     \* strconv.Atoi returned an error
      logged   |-> "none",    \* the error logged: "none", "socket", "no_field",
                              \* "invalid_integer"
      recorded |-> FALSE,     \* AddIdleFactor was called
      value    |-> 0 ]        \* ... with this value

HistInit ==
    [ ticks       |-> FALSE,  \* a tick with a Config has completed
      changed     |-> FALSE,  \* the configuration changed since the last tick
      outstanding |-> FALSE,  \* the last reload made has failed
      failed      |-> FALSE,  \* some reload has failed
      first       |-> FALSE,  \* the last tick was a first reload with 2 workers
      aborted     |-> FALSE,  \* the last tick was aborted while needing a reload
      idle        |-> IdleInit, \* the last call of CalcIdleMetric
      skipped     |-> {} ]    \* storages whose enqueue a non-leader tick skipped

\* The state after CreateInstance, the options drawn from O and the
\* leadership from L.
InitWith(O, L) ==
    /\ up = FALSE
    /\ failedSince = NilTime
    /\ config = FALSE
    /\ opts \in O
    /\ cfg = CfgInit
    /\ now = 1
    /\ leader \in L
    /\ stopped = FALSE
    /\ acmeQueue = {}
    /\ reloadNotified = FALSE
    /\ lastHealth = "none"
    /\ lock = "free"
    /\ pc = "idle"
    /\ cpc = "idle"
    /\ rl = RlInit
    /\ tk = TkInit
    /\ ck = CkInit
    /\ hist = HistInit

\* Instances without an ACME queue: every reload option.
ReloadOptions ==
    [ acmeQueue   : {FALSE},     \* options.AcmeQueue # nil
      reloadQueue : BOOLEAN,     \* options.ReloadQueue # nil
      validate    : BOOLEAN,     \* options.ValidateConfig
      external    : BOOLEAN,     \* Global().External.IsExternal()
      loadState   : BOOLEAN,     \* Global().LoadServerState
      random      : {FALSE} ]    \* options.SortEndpointsBy = "random"

\* Instances with or without an ACME queue, an embedded haproxy and
\* synchronous reloads.
AcmeOptions ==
    [ acmeQueue   : BOOLEAN,
      reloadQueue : {FALSE},
      validate    : {FALSE},
      external    : {FALSE},
      loadState   : {FALSE},
      random      : {FALSE} ]

Init == InitWith(ReloadOptions, {FALSE})

InitAcme == InitWith(AcmeOptions, BOOLEAN)


\* ------------------------------------------------- collaborators (Config)
\* Storages().BuildAcmeStorages(): every storage needing issuance.
BuildAcmeStorages(c) == c.need
\* Storages().BuildAcmeStoragesAdd(): those newly needing it since the last Commit.
BuildAcmeStoragesAdd(c) == c.need \ c.needOld
\* Storages().BuildAcmeStoragesDel(): those no longer needing it since the last Commit.
BuildAcmeStoragesDel(c) == c.needOld \ c.need
\* Storages().Updated(): the storages changed since the last Commit.
StoragesUpdated(c) == c.need # c.needOld

\* Updater.update(): (updated, cmdCnt).  updated means that the pending
\* change-set is satisfied by dynamic commands or needs no change at all;
\* without a previous (committed) configuration nothing can be applied
\* dynamically.  cmdCnt > 0 only if updated.
UpdaterUpdate(c) ==
    LET updated == c.committed /\ ~c.pendReload
    IN  [ updated |-> updated, cmdCnt |-> IF updated THEN c.pendDyn ELSE 0 ]

\* Config.Commit(): the pending state becomes the baseline of the next tick.
ConfigCommit(c) ==
    [ c EXCEPT !.committed = TRUE, !.pendReload = FALSE, !.pendDyn = 0,
               !.needOld = c.need, !.inSession = FALSE,
               !.hostsAdd = NoHosts, !.hostsDel = NoHosts, !.hostsCommit = TRUE ]

\* The callers' lock: Update and AcmeCheck are entered with the lock held.
LockFreeAlways(l) == TRUE
LockFree(l) == l = "free"

\* ---------------------------------------------------- helpers of the code
\* updateSuccessful: the new value of failedSince.
NewFailedSinceNoClear(success, fs, t) ==
    IF success THEN fs ELSE IF fs = NilTime THEN t ELSE fs
NewFailedSinceOverwrite(success, fs, t) == IF success THEN NilTime ELSE t
NewFailedSince(success, fs, t) ==
    IF success THEN NilTime ELSE IF fs = NilTime THEN t ELSE fs

HealthOf(success) == IF success THEN "ok" ELSE "fail"

\* haproxyUpdate's first statement: the deferred calls registered on entry.
EntryDefersNone == << >>
EntryDefers == << "commit" >>

\* acmeUpdate: the leader gate.
\* The record of the storage s as the string "name,chain,domains...": the
\* storage s has s comma-separated fields, the first storage only a name.
StorageString(s) == [k \in 1..(2 * s - 1) |-> IF k % 2 = 1 THEN "x" ELSE ","]

\* strings.Split(storage, ","): the fields between the commas.
RECURSIVE Split(_)
Split(str) ==
    IF \A k \in 1..Len(str) : str[k] # ","
    THEN <<str>>
    ELSE LET k == CHOOSE n \in 1..Len(str) :
                    str[n] = "," /\ \A j \in 1..(n - 1) : str[j] # ","
         IN  <<SubSeq(str, 1, k - 1)>> \o Split(SubSeq(str, k + 1, Len(str)))

\* acmeAddStorage: the enqueue is logged for a record of two fields or
\* more, and the record is added to the queue in any case.
AcmeAddStorageOnlyLogged(s) ==
    [ logged |-> Len(Split(StorageString(s))) >= 2,
      added  |-> Len(Split(StorageString(s))) >= 2 ]
AcmeAddStorage(s) ==
    [ logged |-> Len(Split(StorageString(s))) >= 2,
      added  |-> TRUE ]

\* acmeUpdate: its first guard, no Config or no queue.
AcmeUpdateReturnsNoQueue(hasConfig, hasQueue) == ~hasQueue
AcmeUpdateReturns(hasConfig, hasQueue) == ~hasConfig \/ ~hasQueue

AcmeUpdateBranchNoGate(isLeader, storagesUpdated) == "leader"
AcmeUpdateBranch(isLeader, storagesUpdated) ==
    IF isLeader THEN "leader"
    ELSE IF storagesUpdated THEN "skiplog" ELSE "skip"

\* haproxyUpdate: whether the configuration files are rewritten.
NeedsWriteOnlyReload(updated, cmdCnt) == ~updated
NeedsWriteAlways(updated, cmdCnt) == TRUE
NeedsWrite(updated, cmdCnt) == ~updated \/ cmdCnt > 0

\* haproxyUpdate: the branch taken on the Updater's outcome.
OutcomeBranchDynAsNoop(updated, cmdCnt, hasQueue) ==
    IF updated THEN "noop"
    ELSE IF hasQueue THEN "enqueue" ELSE "reload"
OutcomeBranchNoEnqueue(updated, cmdCnt, hasQueue) ==
    IF updated THEN (IF cmdCnt > 0 THEN "dynamic" ELSE "noop")
    ELSE IF hasQueue THEN "noop" ELSE "reload"
OutcomeBranch(updated, cmdCnt, hasQueue) ==
    IF updated THEN (IF cmdCnt > 0 THEN "dynamic" ELSE "noop")
    ELSE IF hasQueue THEN "enqueue" ELSE "reload"

\* haproxyUpdate: the configuration is validated, and the health recorded,
\* only on a dynamic update with ValidateConfig.
ChecksConfigAnyway(updated, cmdCnt, validate) == updated /\ cmdCnt > 0
ChecksConfig(updated, cmdCnt, validate) == updated /\ cmdCnt > 0 /\ validate

\* check(): the outcomes of validating the configuration; nothing is
\* checked on an external haproxy.
CheckOutcomes(external) == IF external THEN {TRUE} ELSE BOOLEAN

\* reloadExternal: where one "show proc" attempt of the first-contact wait
\* leads, the loop being left only when it succeeded.
AfterPollAlwaysBreak(ok, loadState) == IF loadState THEN "persist" ELSE "reload"
AfterPoll(ok, loadState) ==
    IF ~ok THEN "select" ELSE IF loadState THEN "persist" ELSE "reload"

\* reloadExternal: the select of the first-contact wait.
WaitSelectNoStop(stop) == "timer"
WaitSelect(stop) == IF stop THEN "sigterm" ELSE "timer"

\* reloadExternal: the result after "reload" was accepted.
ProcsResultAnyCount(procsOk, workers) == IF ~procsOk THEN "procs_error" ELSE "ok"
ProcsResult(procsOk, workers) ==
    IF ~procsOk THEN "procs_error"
    ELSE IF workers = 0 THEN "no_workers" ELSE "ok"

\* --------------------------------------------------------- environment
\* Config(): the controller attaches the Config before it changes it.
AttachConfig ==
    /\ ~config /\ lock = "free"
    /\ config' = TRUE
    /\ hist' = [hist EXCEPT !.changed = TRUE]
    /\ UNCHANGED <<up, failedSince, opts, cfg, now, leader, stopped, acmeQueue,
                   reloadNotified, lastHealth, lock, pc, cpc, rl, tk, ck>>

\* The controller changes the configuration between two ticks.
ConfigChange ==
    /\ config /\ lock = "free"
    /\ \E kind \in {"dynamic", "reload"} :
         IF kind = "dynamic"
         THEN /\ cfg.pendDyn < MaxCmds
              /\ cfg' = [cfg EXCEPT !.pendDyn = @ + 1]
         ELSE /\ ~cfg.pendReload
              /\ cfg' = [cfg EXCEPT !.pendReload = TRUE]
    /\ hist' = [hist EXCEPT !.changed = TRUE]
    /\ UNCHANGED <<up, failedSince, config, opts, now, leader, stopped, acmeQueue,
                   reloadNotified, lastHealth, lock, pc, cpc, rl, tk, ck>>

\* A storage starts or stops needing issuance.
\* The converters change hosts: the change-sets of the next tick; after a
\* full parsing there is no committed host and nothing is removed.
HostsChange ==
    /\ config /\ lock = "free"
    /\ cfg.hostsAdd = NoHosts /\ cfg.hostsDel = NoHosts
    /\ \E add \in HostMaps, del \in HostMaps, full \in BOOLEAN :
         /\ full \/ add # NoHosts \/ del # NoHosts
         /\ ~(cfg.hostsCommit /\ ~full) => del = NoHosts
         /\ cfg' = [cfg EXCEPT !.hostsAdd = add, !.hostsDel = del,
                               !.hostsCommit = @ /\ ~full]
    /\ hist' = [hist EXCEPT !.changed = TRUE]
    /\ UNCHANGED <<up, failedSince, config, opts, now, leader, stopped, acmeQueue,
                   reloadNotified, lastHealth, lock, pc, cpc, rl, tk, ck>>

StorageChange ==
    /\ config /\ lock = "free"
    /\ \E s \in Storages :
         IF s \in cfg.need
         THEN /\ cfg' = [cfg EXCEPT !.need = @ \ {s}]
              /\ hist' = [hist EXCEPT !.skipped = @ \ {s}]
         ELSE /\ cfg' = [cfg EXCEPT !.need = @ \cup {s}]
              /\ hist' = hist
    /\ UNCHANGED <<up, failedSince, config, opts, now, leader, stopped, acmeQueue,
                   reloadNotified, lastHealth, lock, pc, cpc, rl, tk, ck>>

\* Leadership is won or lost.
LeaderChange ==
    /\ leader' = ~leader
    /\ UNCHANGED <<up, failedSince, config, opts, cfg, now, stopped, acmeQueue,
                   reloadNotified, lastHealth, lock, pc, cpc, rl, tk, ck, hist>>

\* The shutdown signal: StopCh is closed.
Stop ==
    /\ ~stopped
    /\ stopped' = TRUE
    /\ UNCHANGED <<up, failedSince, config, opts, cfg, now, leader, acmeQueue,
                   reloadNotified, lastHealth, lock, pc, cpc, rl, tk, ck, hist>>

\* Time passes between two ticks.
AdvanceClock ==
    /\ now < MaxTime /\ pc = "idle"
    /\ now' = now + 1
    /\ UNCHANGED <<up, failedSince, config, opts, cfg, leader, stopped, acmeQueue,
                   reloadNotified, lastHealth, lock, pc, cpc, rl, tk, ck, hist>>

\* ------------------------------------------------------------- the tick
\* Update is called (by the reconciliation loop, holding the lock).
UpdateBegin ==
    /\ pc = "idle" /\ LockFree(lock)
    /\ lock' = "tick"
    /\ pc' = "acmeUpdate"
    /\ tk' = [TkInit EXCEPT !.hadConfig = config,
                            !.changed = hist.changed,
                            !.prevTick = hist.ticks,
                            !.afterFirst = hist.first,
                            !.queueAtStart = acmeQueue,
                            !.needReload = config /\ ~UpdaterUpdate(cfg).updated,
                            !.afterAbort = hist.aborted,
                            !.outstanding = hist.outstanding,
                            !.skipped = hist.skipped,
                            !.upAtStart = up,
                            !.fsAtStart = failedSince]
    /\ UNCHANGED <<up, failedSince, config, opts, cfg, now, leader, stopped,
                   acmeQueue, reloadNotified, lastHealth, cpc, rl, ck, hist>>

\* acmeUpdate.
AcmeUpdate ==
    /\ pc = "acmeUpdate"
    /\ pc' = "haproxyUpdate"
    /\ IF AcmeUpdateReturns(config, opts.acmeQueue)
       THEN UNCHANGED <<acmeQueue, tk, hist>>
       ELSE LET add == {x \in BuildAcmeStoragesAdd(cfg) : AcmeAddStorage(x).added}
                del == BuildAcmeStoragesDel(cfg)
                upd == StoragesUpdated(cfg)
                br  == AcmeUpdateBranch(leader, upd)
                t1  == [tk EXCEPT !.acmeRan = TRUE, !.sawLeader = leader]
            IN  IF br = "leader"
                THEN \E hasAccount \in BOOLEAN :
                       IF hasAccount
                       THEN /\ acmeQueue' = (acmeQueue \cup add) \ del
                            /\ tk' = [t1 EXCEPT !.signer = TRUE,
                                                !.hasAccount = TRUE,
                                                !.enq = add, !.deq = del,
                                                !.enqLogged =
                                                    {x \in BuildAcmeStoragesAdd(cfg) :
                                                       AcmeAddStorage(x).logged}]
                            /\ hist' = [hist EXCEPT !.skipped = {}]
                       ELSE /\ tk' = [t1 EXCEPT !.signer = TRUE]
                            /\ UNCHANGED <<acmeQueue, hist>>
                ELSE /\ tk' = [t1 EXCEPT !.storagesUpd = upd,
                                         !.skipLog = (br = "skiplog")]
                     /\ hist' = [hist EXCEPT !.skipped = @ \cup add]
                     /\ UNCHANGED acmeQueue
    /\ UNCHANGED <<up, failedSince, config, opts, cfg, now, leader, stopped,
                   reloadNotified, lastHealth, lock, cpc, rl, ck>>

\* haproxyUpdate, up to Shrink.
HaproxyUpdateBegin ==
    /\ pc = "haproxyUpdate"
    /\ IF ~config
       THEN /\ pc' = "return"
            /\ UNCHANGED <<cfg, tk>>
       ELSE /\ cfg' = [cfg EXCEPT !.inSession = TRUE]
            /\ tk' = [tk EXCEPT !.defers = EntryDefers]
            /\ pc' = "writeMaps"
    /\ UNCHANGED <<up, failedSince, config, opts, now, leader, stopped, acmeQueue,
                   reloadNotified, lastHealth, lock, cpc, rl, ck, hist>>

\* haproxyUpdate: a failed map write returns, the Updater not being reached.
AfterMapsGoOn(failed) == "dynUpdate"
AfterMaps(failed) == IF failed THEN "return" ELSE "dynUpdate"

\* The three maps are built; any of them may fail.
WriteMaps ==
    /\ pc = "writeMaps"
    /\ \E r \in {"tcp", "frontend", "backend", "ok"} :
         /\ pc' = AfterMaps(r # "ok")
         /\ tk' = IF r = "ok" THEN tk
                  ELSE [tk EXCEPT !.mapFailed = TRUE, !.noop = @ + 1]
    /\ UNCHANGED <<up, failedSince, config, opts, cfg, now, leader, stopped,
                   acmeQueue, reloadNotified, lastHealth, lock, cpc, rl, ck, hist>>

\* haproxyUpdate: what is done to the endpoints after the Updater ran.
EndpointOrderingOnUpdated(random, updated) ==
    IF ~random THEN "sort" ELSE IF updated THEN "shuffle" ELSE "none"
EndpointOrdering(random, updated) ==
    IF ~random THEN "sort" ELSE IF ~updated THEN "shuffle" ELSE "none"

\* The Updater runs, the endpoints are ordered.
DynUpdate ==
    /\ pc = "dynUpdate"
    /\ LET u == UpdaterUpdate(cfg)
       IN  /\ tk' = [tk EXCEPT !.updaterRan = TRUE,
                               !.updated = u.updated,
                               !.cmdCnt = u.cmdCnt,
                               !.sorted =
                                   EndpointOrdering(opts.random, u.updated) = "sort",
                               !.shuffled =
                                   EndpointOrdering(opts.random, u.updated) = "shuffle"]
           /\ pc' = IF NeedsWrite(u.updated, u.cmdCnt) THEN "writeConfig" ELSE "outcome"
    /\ UNCHANGED <<up, failedSince, config, opts, cfg, now, leader, stopped,
                   acmeQueue, reloadNotified, lastHealth, lock, cpc, rl, ck, hist>>

\* writeConfig.
WriteConfig ==
    /\ pc = "writeConfig"
    /\ \E ok \in BOOLEAN :
         IF ok
         THEN /\ pc' = "outcome"
              /\ tk' = [tk EXCEPT !.wrote = TRUE]
         ELSE /\ pc' = "return"
              /\ tk' = [tk EXCEPT !.wrote = TRUE, !.writeFailed = TRUE, !.noop = @ + 1]
    /\ UNCHANGED <<up, failedSince, config, opts, cfg, now, leader, stopped,
                   acmeQueue, reloadNotified, lastHealth, lock, cpc, rl, ck, hist>>

\* updateCertExpiring: ClearCertExpire is called when the hosts have no
\* committed state, which is the case after a full parsing.
ClearsCertExpireOnCommit(hasCommit) == hasCommit
ClearsCertExpire(hasCommit) == ~hasCommit

\* updateCertExpiring: the calls of SetCertExpireDate made for the added
\* and the removed hosts; at = NilTime is the nil date that clears a gauge.
CertOpsIgnoreNotAfter(hostsAdd, hostsDel) ==
    { [host |-> h, cn |-> hostsDel[h].cn, at |-> NilTime] :
        h \in { x \in DOMAIN hostsDel :
                  /\ hostsDel[x].tls
                  /\ \/ x \notin DOMAIN hostsAdd
                     \/ hostsDel[x].cn # hostsAdd[x].cn } }
    \cup
    { [host |-> h, cn |-> hostsAdd[h].cn, at |-> hostsAdd[h].notAfter] :
        h \in { x \in DOMAIN hostsAdd :
                  /\ hostsAdd[x].tls
                  /\ \/ x \notin DOMAIN hostsDel
                     \/ hostsDel[x].cn # hostsAdd[x].cn } }
CertOps(hostsAdd, hostsDel) ==
    { [host |-> h, cn |-> hostsDel[h].cn, at |-> NilTime] :
        h \in { x \in DOMAIN hostsDel :
                  /\ hostsDel[x].tls
                  /\ \/ x \notin DOMAIN hostsAdd
                     \/ hostsDel[x].cn # hostsAdd[x].cn } }
    \cup
    { [host |-> h, cn |-> hostsAdd[h].cn, at |-> hostsAdd[h].notAfter] :
        h \in { x \in DOMAIN hostsAdd :
                  /\ hostsAdd[x].tls
                  /\ \/ x \notin DOMAIN hostsDel
                     \/ hostsDel[x].cn # hostsAdd[x].cn
                     \/ hostsDel[x].notAfter # hostsAdd[x].notAfter } }

\* defer: the call is put on top of the deferred calls, to run first.
PushDeferFront(d, f) == <<f>> \o d
PushDefer(d, f) == Append(d, f)

\* The certificate gauges are updated, the failure log is deferred, then the
\* outcome decides.
Outcome ==
    /\ pc = "outcome"
    /\ LET br == OutcomeBranch(tk.updated, tk.cmdCnt, opts.reloadQueue)
           t1 == [tk EXCEPT !.certRan = TRUE,
                            !.certCleared = ClearsCertExpire(cfg.hostsCommit),
                            !.certOps = CertOps(cfg.hostsAdd, cfg.hostsDel),
                            !.defers = PushDefer(@, "log")]
       IN  CASE br = "dynamic" ->
                  /\ IF ChecksConfig(tk.updated, tk.cmdCnt, opts.validate)
                     THEN \E ok \in CheckOutcomes(opts.external) :
                            /\ failedSince' = NewFailedSince(ok, failedSince, now)
                            /\ lastHealth' = HealthOf(ok)
                            /\ tk' = [t1 EXCEPT !.validated = TRUE, !.health = @ + 1,
                                                !.dyn = @ + 1]
                     ELSE /\ tk' = [t1 EXCEPT !.dyn = @ + 1]
                          /\ UNCHANGED <<failedSince, lastHealth>>
                  /\ pc' = "return"
                  /\ UNCHANGED <<reloadNotified, rl>>
             [] br = "noop" ->
                  /\ tk' = [t1 EXCEPT !.noop = @ + 1]
                  /\ pc' = "return"
                  /\ UNCHANGED <<failedSince, lastHealth, reloadNotified, rl>>
             [] br = "enqueue" ->
                  /\ reloadNotified' = TRUE
                  /\ tk' = [t1 EXCEPT !.notifies = @ + 1]
                  /\ pc' = "return"
                  /\ UNCHANGED <<failedSince, lastHealth, rl>>
             [] br = "reload" ->
                  /\ tk' = [t1 EXCEPT !.reloads = @ + 1]
                  /\ rl' = [RlInit EXCEPT !.pc = "start"]
                  /\ pc' = "reload"
                  /\ UNCHANGED <<failedSince, lastHealth, reloadNotified>>
    /\ UNCHANGED <<up, config, opts, cfg, now, leader, stopped, acmeQueue,
                   lock, cpc, ck, hist>>

\* A return of haproxyUpdate runs the deferred calls, last one first.
DeferredLog ==
    /\ pc = "return" /\ tk.defers # << >>
    /\ tk.defers[Len(tk.defers)] = "log"
    /\ tk' = [tk EXCEPT !.defers = SubSeq(@, 1, Len(@) - 1),
                        !.failLogged = (failedSince # NilTime)]
    /\ UNCHANGED <<up, failedSince, config, opts, cfg, now, leader, stopped, acmeQueue,
                   reloadNotified, lastHealth, lock, pc, cpc, rl, ck, hist>>

DeferredCommit ==
    /\ pc = "return" /\ tk.defers # << >>
    /\ tk.defers[Len(tk.defers)] = "commit"
    /\ cfg' = ConfigCommit(cfg)
    /\ tk' = [tk EXCEPT !.defers = SubSeq(@, 1, Len(@) - 1), !.commits = @ + 1]
    /\ UNCHANGED <<up, failedSince, config, opts, now, leader, stopped, acmeQueue,
                   reloadNotified, lastHealth, lock, pc, cpc, rl, ck, hist>>

\* The tick t started with up = false, needed a reload (updated = false),
\* got to its outcome without a reload queue, and its external reload r
\* found 2 workers.
FirstReloadTick(t, r, hasQueue) ==
    /\ t.hadConfig /\ ~t.upAtStart /\ ~hasQueue
    /\ t.updaterRan /\ ~t.updated /\ ~t.writeFailed
    /\ t.reloads = 1 /\ r.external /\ r.procsOk /\ r.workers = 2

\* The tick t needed a reload and was aborted by a map or writeConfig failure.
AbortedReloadTick(t) ==
    t.hadConfig /\ t.needReload /\ (t.mapFailed \/ t.writeFailed)

\* Update returns to its caller, which releases the lock.
UpdateReturn ==
    /\ pc = "return" /\ tk.defers = << >>
    /\ pc' = "idle"
    /\ lock' = "free"
    /\ tk' = [tk EXCEPT !.done = TRUE]
    /\ hist' = IF tk.hadConfig
               THEN [hist EXCEPT !.ticks = TRUE, !.changed = FALSE,
                                 !.first = FirstReloadTick(tk, rl, opts.reloadQueue),
                                 !.aborted = AbortedReloadTick(tk)]
               ELSE hist
    /\ UNCHANGED <<up, failedSince, config, opts, cfg, now, leader, stopped, acmeQueue,
                   reloadNotified, lastHealth, cpc, rl, ck>>


\* ------------------------------------------------------------ Reload
\* Reload, up to the choice of the reload strategy in reloadHAProxy.
ReloadStart ==
    /\ pc = "reload" /\ rl.pc = "start"
    /\ tk' = [tk EXCEPT !.full = @ + 1]
    /\ rl' = [rl EXCEPT !.external = opts.external,
                        !.upAtStart = up,
                        !.fsAtStart = failedSince,
                        !.waited = opts.external /\ ~up,
                        !.pc = IF ~opts.external THEN "embedded"
                               ELSE IF ~up THEN "wait"
                               ELSE IF opts.loadState THEN "persist" ELSE "reload"]
    /\ UNCHANGED <<up, failedSince, config, opts, cfg, now, leader, stopped, acmeQueue,
                   reloadNotified, lastHealth, lock, pc, cpc, ck, hist>>

\* reloadEmbedded: the reload script succeeds or fails.
ReloadEmbedded ==
    /\ rl.pc = "embedded"
    /\ \E ok \in BOOLEAN :
         rl' = [rl EXCEPT !.result = IF ok THEN "ok" ELSE "script_error",
                          !.pc = "finish"]
    /\ UNCHANGED <<up, failedSince, config, opts, cfg, now, leader, stopped, acmeQueue,
                   reloadNotified, lastHealth, lock, pc, cpc, tk, ck, hist>>

\* reloadExternal, first-contact wait: one "show proc" attempt.
ExtWaitPoll ==
    /\ rl.pc = "wait"
    /\ \E ok \in BOOLEAN :
         rl' = [rl EXCEPT !.contact = ok,
                          !.pc = AfterPoll(ok, opts.loadState)]
    /\ UNCHANGED <<up, failedSince, config, opts, cfg, now, leader, stopped, acmeQueue,
                   reloadNotified, lastHealth, lock, pc, cpc, tk, ck, hist>>

\* reloadExternal, first-contact wait: StopCh against the one second timer.
ExtWaitSelect ==
    /\ rl.pc = "select"
    /\ IF WaitSelect(stopped) = "sigterm"
       THEN rl' = [rl EXCEPT !.result = "sigterm", !.pc = "finish"]
       ELSE rl' = [rl EXCEPT !.pc = "wait",
                             !.timers = IF stopped THEN 1 ELSE @]
    /\ UNCHANGED <<up, failedSince, config, opts, cfg, now, leader, stopped, acmeQueue,
                   reloadNotified, lastHealth, lock, pc, cpc, tk, ck, hist>>

\* reloadExternal: what follows persistServersState, whose error is only
\* logged.
AfterPersistAbortOnError(res) == IF res = "ok" THEN "reload" ELSE "finish"
AfterPersist(res) == "reload"

\* persistServersState: "show servers state" is retrieved, then written to
\* the state file; either may fail.
ExtPersist ==
    /\ rl.pc = "persist"
    /\ \E res \in {"ok", "retrieve_failed", "write_failed"} :
         rl' = [rl EXCEPT !.persisted = res,
                          !.retrieved = TRUE,
                          !.stateFile = (res = "ok"),
                          !.pc = AfterPersist(res)]
    /\ UNCHANGED <<up, failedSince, config, opts, cfg, now, leader, stopped, acmeQueue,
                   reloadNotified, lastHealth, lock, pc, cpc, tk, ck, hist>>

\* The "reload" command is sent to the master socket.
ExtReload ==
    /\ rl.pc = "reload"
    /\ \E ok \in BOOLEAN :
         rl' = [rl EXCEPT !.sent = TRUE, !.reloadOk = ok,
                          !.result = IF ok THEN @ ELSE "reload_error",
                          !.pc = IF ok THEN "procs" ELSE "finish"]
    /\ UNCHANGED <<up, failedSince, config, opts, cfg, now, leader, stopped, acmeQueue,
                   reloadNotified, lastHealth, lock, pc, cpc, tk, ck, hist>>

\* HAProxyProcs: "show proc" after the reload, and its worker list.
ExtProcs ==
    /\ rl.pc = "procs"
    /\ \E ok \in BOOLEAN :
       \E w \in IF ok THEN 0..MaxWorkers ELSE {0} :
         rl' = [rl EXCEPT !.procs = TRUE, !.procsOk = ok, !.workers = w,
                          !.result = ProcsResult(ok, w),
                          !.pc = "finish"]
    /\ UNCHANGED <<up, failedSince, config, opts, cfg, now, leader, stopped, acmeQueue,
                   reloadNotified, lastHealth, lock, pc, cpc, tk, ck, hist>>

\* Reload: up after reloadHAProxy returned; only a success raises it.
UpAfterReloadIsResult(ok, wasUp) == ok
UpAfterReloadNever(ok, wasUp) == wasUp
UpAfterReload(ok, wasUp) == IF ok THEN TRUE ELSE wasUp

\* Reload after reloadHAProxy returned.
ReloadFinish ==
    /\ pc = "reload" /\ rl.pc = "finish"
    /\ LET ok == rl.result = "ok"
       IN  /\ up' = UpAfterReload(ok, up)
           /\ failedSince' = NewFailedSince(ok, failedSince, now)
           /\ lastHealth' = HealthOf(ok)
           /\ hist' = [hist EXCEPT !.outstanding = ~ok, !.failed = @ \/ ~ok]
    /\ rl' = [rl EXCEPT !.pc = "none"]
    /\ tk' = [tk EXCEPT !.health = @ + 1]
    /\ pc' = "return"
    /\ UNCHANGED <<config, opts, cfg, now, leader, stopped, acmeQueue,
                   reloadNotified, lock, cpc, ck>>

\* ------------------------------------------------------ CalcIdleMetric
\* The characters of a "show info" reply: the text "Idle_pct: " taken as one
\* character, digits, and any other character.
IdleKey == "Idle_pct: "
Digits == {"1", "9"}
ReplyChars == {IdleKey, "x"} \cup Digits
Replies == UNION {[1..n -> ReplyChars] : n \in 0..MaxReplyLen}

\* The largest int.
MaxInt == 2 ^ (IntBits - 1) - 1

\* idleRegex.FindStringSubmatch: the leftmost "Idle_pct: " followed by a
\* digit, and the longest run of digits after it; no element without match.
FindStringSubmatch(msg) ==
    LET starts == { p \in 1..(Len(msg) - 1) :
                      msg[p] = IdleKey /\ msg[p + 1] \in Digits }
    IN  IF starts = {} THEN << >>
        ELSE LET p == CHOOSE q \in starts : \A r \in starts : q <= r
                 e == CHOOSE q \in (p + 1)..Len(msg) :
                        /\ \A k \in (p + 1)..q : msg[k] \in Digits
                        /\ q = Len(msg) \/ msg[q + 1] \notin Digits
             IN  << SubSeq(msg, p, e), SubSeq(msg, p + 1, e) >>

DigitValue(c) == CASE c = "1" -> 1 [] c = "9" -> 9

RECURSIVE DecimalValue(_)
DecimalValue(str) ==
    IF str = << >> THEN 0
    ELSE 10 * DecimalValue(SubSeq(str, 1, Len(str) - 1)) + DigitValue(str[Len(str)])

\* strconv.Atoi of a string of digits: out of the range of int it returns
\* the largest int and an error.
Atoi(str) ==
    IF DecimalValue(str) > MaxInt
    THEN [value |-> MaxInt, err |-> TRUE]
    ELSE [value |-> DecimalValue(str), err |-> FALSE]

\* CalcIdleMetric, called by the controller between two ticks.
CalcIdleMetric ==
    /\ pc = "idle"
    /\ \E cmdOk \in BOOLEAN, msg \in Replies :
         LET c0 == [IdleInit EXCEPT !.called = TRUE, !.up = up]
             c1 == [c0 EXCEPT !.cmdOk = cmdOk, !.msg = IF cmdOk THEN msg ELSE << >>]
             idleStr == FindStringSubmatch(msg)
         IN  hist' = [hist EXCEPT !.idle =
               IF ~up THEN c0
               ELSE IF ~cmdOk THEN [c1 EXCEPT !.logged = "socket"]
               ELSE IF Len(idleStr) < 2 THEN [c1 EXCEPT !.logged = "no_field"]
               ELSE LET a == Atoi(idleStr[2])
                    IN  [c1 EXCEPT !.found = TRUE,
                                   !.atoiErr = a.err,
                                   !.logged = IF a.err THEN "invalid_integer" ELSE "none",
                                   !.recorded = TRUE,
                                   !.value = a.value]]
    /\ UNCHANGED <<up, failedSince, config, opts, cfg, now, leader, stopped, acmeQueue,
                   reloadNotified, lastHealth, lock, pc, cpc, rl, tk, ck>>

\* --------------------------------------------------------- AcmeCheck
\* AcmeCheck is called (by the periodic check, holding the lock).
AcmeCheckBegin ==
    /\ cpc = "idle" /\ LockFree(lock)
    /\ lock' = "check"
    /\ cpc' = "guards"
    /\ ck' = CkInit
    /\ UNCHANGED <<up, failedSince, config, opts, cfg, now, leader, stopped, acmeQueue,
                   reloadNotified, lastHealth, pc, rl, tk, hist>>

\* AcmeCheck, up to the leader gate.
AcmeCheckGuards ==
    /\ cpc = "guards"
    /\ \/ /\ ~up
          /\ ck' = [ck EXCEPT !.err = "not_started", !.done = TRUE]
          /\ cpc' = "idle" /\ lock' = "free"
       \/ /\ up /\ ~opts.acmeQueue
          /\ ck' = [ck EXCEPT !.err = "no_queue", !.done = TRUE]
          /\ cpc' = "idle" /\ lock' = "free"
       \/ /\ up /\ opts.acmeQueue
          /\ \E hasAccount \in BOOLEAN :
               LET c1 == [ck EXCEPT !.inSession = cfg.inSession,
                                    !.signer = TRUE,
                                    !.signerAsLeader = leader]
               IN  IF ~hasAccount
                   THEN /\ ck' = [c1 EXCEPT !.err = "no_account", !.done = TRUE]
                        /\ cpc' = "idle" /\ lock' = "free"
                   ELSE IF ~leader
                   THEN /\ ck' = [c1 EXCEPT !.asked = TRUE, !.err = "not_leader",
                                            !.done = TRUE]
                        /\ cpc' = "idle" /\ lock' = "free"
                   ELSE /\ ck' = [c1 EXCEPT !.asked = TRUE, !.sawLeader = TRUE]
                        /\ cpc' = "scan" /\ lock' = lock
    /\ UNCHANGED <<up, failedSince, config, opts, cfg, now, leader, stopped, acmeQueue,
                   reloadNotified, lastHealth, pc, rl, tk, hist>>

\* AcmeCheck: the storages the scan walks.
CheckStoragesDelta(c) == BuildAcmeStoragesAdd(c)
CheckStorages(c) == BuildAcmeStorages(c)

\* AcmeCheck: every storage needing issuance is enqueued.
AcmeCheckScan ==
    /\ cpc = "scan"
    /\ LET all == {x \in CheckStorages(cfg) : AcmeAddStorage(x).added}
       IN  /\ acmeQueue' = acmeQueue \cup all
           /\ ck' = [ck EXCEPT !.enq = all, !.count = Cardinality(all),
                               !.need = cfg.need,
                               !.inSession = @ \/ cfg.inSession, !.done = TRUE]
           /\ hist' = [hist EXCEPT !.skipped = @ \ all]
    /\ cpc' = "idle"
    /\ lock' = "free"
    /\ UNCHANGED <<up, failedSince, config, opts, cfg, now, leader, stopped,
                   reloadNotified, lastHealth, pc, rl, tk>>

\* ------------------------------------------------------ specifications
\* The tick and the synchronous reload, without ACME.
Next ==
    \/ AttachConfig \/ ConfigChange \/ Stop \/ AdvanceClock
    \/ UpdateBegin \/ AcmeUpdate \/ HaproxyUpdateBegin \/ WriteMaps \/ DynUpdate
    \/ WriteConfig \/ Outcome \/ DeferredLog \/ DeferredCommit \/ UpdateReturn
    \/ ReloadStart \/ ReloadEmbedded \/ ExtWaitPoll \/ ExtWaitSelect
    \/ ExtPersist \/ ExtReload \/ ExtProcs \/ ReloadFinish

Spec == Init /\ [][Next]_vars

\* The tick with the ACME scheduler, and the on-demand certificate check.
NextAcme ==
    \/ AttachConfig \/ StorageChange \/ LeaderChange
    \/ UpdateBegin \/ AcmeUpdate \/ HaproxyUpdateBegin \/ WriteMaps \/ DynUpdate
    \/ WriteConfig \/ Outcome \/ DeferredLog \/ DeferredCommit \/ UpdateReturn
    \/ ReloadStart \/ ReloadEmbedded \/ ReloadFinish
    \/ AcmeCheckBegin \/ AcmeCheckGuards \/ AcmeCheckScan

SpecAcme == InitAcme /\ [][NextAcme]_vars


\* The master socket answers a "show proc" of the first-contact wait.
ExtWaitPollOk == ExtWaitPoll /\ rl'.contact

\* Instances with an external haproxy and synchronous reloads.
WaitOptions ==
    [ acmeQueue   : {FALSE},
      reloadQueue : {FALSE},
      validate    : {FALSE},
      external    : {TRUE},
      loadState   : {FALSE},
      random      : {FALSE} ]

InitWait == InitWith(WaitOptions, {FALSE})

\* The tick with the external reload; the wait loop keeps running (its
\* poll and its one second timer are always taken in the end).
NextWait ==
    \/ AttachConfig \/ ConfigChange \/ Stop
    \/ UpdateBegin \/ AcmeUpdate \/ HaproxyUpdateBegin \/ WriteMaps \/ DynUpdate
    \/ WriteConfig \/ Outcome \/ DeferredLog \/ DeferredCommit \/ UpdateReturn
    \/ ReloadStart \/ ExtWaitPoll \/ ExtWaitSelect
    \/ ExtReload \/ ExtProcs \/ ReloadFinish

SpecWait ==
    /\ InitWait /\ [][NextWait]_vars
    /\ WF_vars(ExtWaitPoll) /\ WF_vars(ExtWaitSelect)

\* Instances with any endpoint ordering, an embedded haproxy, with or
\* without a reload queue.
SortOptions ==
    [ acmeQueue   : {FALSE},
      reloadQueue : BOOLEAN,
      validate    : {FALSE},
      external    : {FALSE},
      loadState   : {FALSE},
      random      : BOOLEAN ]

InitSort == InitWith(SortOptions, {FALSE})

NextSort ==
    \/ AttachConfig \/ ConfigChange
    \/ UpdateBegin \/ AcmeUpdate \/ HaproxyUpdateBegin \/ WriteMaps \/ DynUpdate
    \/ WriteConfig \/ Outcome \/ DeferredLog \/ DeferredCommit \/ UpdateReturn
    \/ ReloadStart \/ ReloadEmbedded \/ ReloadFinish

SpecSort == InitSort /\ [][NextSort]_vars

\* Instances with a reload queue, whose hosts change between the ticks.
CertOptions ==
    [ acmeQueue   : {FALSE},
      reloadQueue : {TRUE},
      validate    : {FALSE},
      external    : {FALSE},
      loadState   : {FALSE},
      random      : {FALSE} ]

InitCert == InitWith(CertOptions, {FALSE})

NextCert ==
    \/ AttachConfig \/ HostsChange
    \/ UpdateBegin \/ AcmeUpdate \/ HaproxyUpdateBegin \/ WriteMaps \/ DynUpdate
    \/ WriteConfig \/ Outcome \/ DeferredLog \/ DeferredCommit \/ UpdateReturn

SpecCert == InitCert /\ [][NextCert]_vars

\* Instances with an embedded haproxy and synchronous reloads, whose idle
\* metric is read between the ticks.
IdleOptions ==
    [ acmeQueue   : {FALSE},
      reloadQueue : {FALSE},
      validate    : {FALSE},
      external    : {FALSE},
      loadState   : {FALSE},
      random      : {FALSE} ]

InitIdle == InitWith(IdleOptions, {FALSE})

NextIdle ==
    \/ AttachConfig
    \/ UpdateBegin \/ AcmeUpdate \/ HaproxyUpdateBegin \/ WriteMaps \/ DynUpdate
    \/ WriteConfig \/ Outcome \/ DeferredLog \/ DeferredCommit \/ UpdateReturn
    \/ ReloadStart \/ ReloadEmbedded \/ ReloadFinish
    \/ CalcIdleMetric

SpecIdle == InitIdle /\ [][NextIdle]_vars

\* ------------------------------------------------- the reload queue
\* updateSuccessful, as two steps of one caller: the value it leaves in
\* failedSince when it read the value read and the field holds cur by the
\* time it writes. A success writes nil; a failure writes only when it read
\* nil.
UpdateSuccessfulWrite(success, read, cur, t) ==
    IF success THEN NilTime ELSE IF read = NilTime THEN t ELSE cur

\* The reload queue calls Reload for a pending notification, on its own
\* call path: Reload up to the choice of the strategy in reloadHAProxy,
\* which reads the Config.
QueueReloadStart ==
    /\ opts.reloadQueue /\ reloadNotified /\ rl.pc = "none"
    /\ reloadNotified' = FALSE
    /\ rl' = [RlInit EXCEPT !.queued = TRUE,
                            !.external = opts.external,
                            !.upAtStart = up,
                            !.fsAtStart = failedSince,
                            !.raced = cfg.inSession,
                            !.pc = "embedded"]
    /\ UNCHANGED <<up, failedSince, config, opts, cfg, now, leader, stopped, acmeQueue,
                   lastHealth, lock, pc, cpc, tk, ck, hist>>

\* Reload of the queue after reloadHAProxy returned: up is written on
\* success, and updateSuccessful tests failedSince.
QueueReloadRead ==
    /\ rl.queued /\ rl.pc = "finish"
    /\ up' = UpAfterReload(rl.result = "ok", up)
    /\ rl' = [rl EXCEPT !.fsRead = failedSince,
                        !.raced = @ \/ cfg.inSession,
                        !.pc = "health"]
    /\ UNCHANGED <<failedSince, config, opts, cfg, now, leader, stopped, acmeQueue,
                   reloadNotified, lastHealth, lock, pc, cpc, tk, ck, hist>>

\* ... and updateSuccessful writes failedSince and reports to the metrics.
QueueReloadWrite ==
    /\ rl.queued /\ rl.pc = "health"
    /\ LET ok == rl.result = "ok"
       IN  /\ failedSince' = UpdateSuccessfulWrite(ok, rl.fsRead, failedSince, now)
           /\ lastHealth' = HealthOf(ok)
           /\ hist' = [hist EXCEPT !.outstanding = ~ok, !.failed = @ \/ ~ok]
    /\ rl' = [rl EXCEPT !.raced = @ \/ cfg.inSession, !.pc = "none"]
    /\ UNCHANGED <<up, config, opts, cfg, now, leader, stopped, acmeQueue,
                   reloadNotified, lock, pc, cpc, tk, ck>>

\* Instances with a reload queue and an embedded haproxy, whose dynamic
\* updates are validated.
QueueOptions ==
    [ acmeQueue   : {FALSE},
      reloadQueue : {TRUE},
      validate    : {TRUE},
      external    : {FALSE},
      loadState   : {FALSE},
      random      : {FALSE} ]

InitQueue == InitWith(QueueOptions, {FALSE})

NextQueue ==
    \/ AttachConfig \/ ConfigChange
    \/ UpdateBegin \/ AcmeUpdate \/ HaproxyUpdateBegin \/ WriteMaps \/ DynUpdate
    \/ WriteConfig \/ Outcome \/ DeferredLog \/ DeferredCommit \/ UpdateReturn
    \/ QueueReloadStart \/ ReloadEmbedded \/ QueueReloadRead \/ QueueReloadWrite

SpecQueue == InitQueue /\ [][NextQueue]_vars

\* ------------------------------------------------------------- claims
\* C1: every Update on an Instance with a Config attached calls
\* Config.Commit exactly once, whichever path the tick takes: never twice
\* while it runs, and once when it has returned.
C1_CommitExactlyOnce ==
    /\ tk.commits <= 1
    /\ (tk.done /\ tk.hadConfig) => tk.commits = 1

\* A tick that took the synchronous reload path, whose reload failed, has returned.
C1_Witness ==
    /\ tk.done /\ tk.hadConfig /\ tk.reloads = 1
    /\ rl.result \notin {"none", "ok"} /\ tk.commits = 1

\* C2 (as stated): in every tick in which the Updater reports
\* updated = false, exactly one of a synchronous Reload and
\* ReloadQueue.Notify occurs.
C2_ReloadOrEnqueue ==
    (tk.done /\ tk.updaterRan /\ ~tk.updated) => tk.reloads + tk.notifies = 1

\* C2 (amended): no tick both reloads and enqueues; a tick in which the
\* Updater reports updated = false and writeConfig succeeds does exactly
\* one of the two.
C2_ReloadOrEnqueueIfWritten ==
    /\ tk.reloads + tk.notifies <= 1
    /\ (tk.done /\ tk.updaterRan /\ ~tk.updated /\ ~tk.writeFailed)
          => tk.reloads + tk.notifies = 1

\* A tick with updated = false has enqueued its reload and returned.
C2_Witness ==
    tk.done /\ tk.updaterRan /\ ~tk.updated /\ tk.notifies = 1 /\ tk.reloads = 0

C4_RetriesFailedReload ==
    (tk.done /\ tk.outstanding /\ ~tk.mapFailed /\ ~tk.writeFailed)
       => tk.reloads = 1

\* C5: a tick that follows another one with no configuration change in
\* between gets updated = true with no command from the Updater, writes no
\* configuration, neither reloads nor enqueues, and counts as a noop.
C5_SecondTickIsNoop ==
    (tk.hadConfig /\ tk.prevTick /\ ~tk.changed) =>
       /\ tk.updaterRan => (tk.updated /\ tk.cmdCnt = 0)
       /\ ~tk.wrote /\ tk.reloads = 0 /\ tk.notifies = 0
       /\ tk.dyn = 0 /\ tk.full = 0
       /\ tk.done => tk.noop = 1

\* Such a second tick has run the Updater and returned, the first one's
\* reload having failed.
C5_Witness ==
    /\ tk.done /\ tk.hadConfig /\ tk.prevTick /\ ~tk.changed
    /\ tk.updaterRan /\ tk.outstanding

C7_NonLeaderLeavesQueue ==
    /\ (tk.acmeRan /\ ~tk.sawLeader) =>
          (tk.enq = {} /\ tk.deq = {} /\ (tk.skipLog <=> tk.storagesUpd))
    /\ (ck.asked /\ ~ck.sawLeader) =>
          (ck.enq = {} /\ ck.count = 0 /\ ck.err = "not_leader")

\* A non-leader tick has skipped every storage, all of them newly needing issuance.
C7_Witness ==
    /\ pc = "haproxyUpdate" /\ tk.acmeRan /\ ~tk.sawLeader /\ tk.skipLog
    /\ BuildAcmeStoragesAdd(cfg) = Storages /\ acmeQueue = {}

\* C8: the storages whose enqueue was skipped while the replica was not
\* leader (and that still need issuance) are all enqueued by the first
\* tick the replica runs as leader.
C8_SkippedAreEnqueuedByLeader ==
    (tk.acmeRan /\ tk.sawLeader /\ tk.hasAccount) => tk.skipped \subseteq tk.enq

\* C9: an external reload succeeds exactly when "reload" was accepted, the
\* following "show proc" succeeded and listed a worker; no worker is an
\* error, and after a failed "reload" no "show proc" is made.
C9_ExternalReloadResult ==
    (rl.external /\ rl.result # "none") =>
       /\ rl.result = "ok" <=>
             (rl.sent /\ rl.reloadOk /\ rl.procs /\ rl.procsOk /\ rl.workers >= 1)
       /\ (rl.sent /\ rl.reloadOk /\ rl.procsOk /\ rl.workers = 0)
             => rl.result = "no_workers"
       /\ (rl.sent /\ ~rl.reloadOk) => (rl.result = "reload_error" /\ ~rl.procs)

\* "reload" was accepted and "show proc" listed no worker.
C9_Witness ==
    /\ rl.external /\ rl.sent /\ rl.reloadOk /\ rl.procsOk /\ rl.workers = 0
    /\ rl.result = "no_workers"

\* C10: the first-contact wait never goes round again once StopCh is
\* closed; the reload then ends with the "received sigterm" error, which
\* is no transport error, without a "reload" command, and up stays false.
C10_StopAbortsWait ==
    /\ rl.timers = 0
    /\ rl.result = "sigterm" =>
          /\ rl.external /\ rl.waited /\ ~rl.upAtStart /\ stopped
          /\ ~rl.sent /\ ~rl.procs /\ ~up
          /\ rl.pc \in {"finish", "none"}
    /\ (rl.result = "sigterm" /\ tk.done /\ tk.reloads = 1)
          => (lastHealth = "fail" /\ failedSince # NilTime)

\* A tick whose reload was aborted by the shutdown signal has returned.
C10_Witness ==
    rl.result = "sigterm" /\ rl.pc = "none" /\ tk.done /\ ~up

\* The reload is in its first-contact wait.
InWait == rl.pc \in {"wait", "select"}

\* C11: the first-contact wait is entered only with up = false; with
\* up = false no "reload" is sent before a "show proc" has succeeded; and
\* if the shutdown signal is eventually raised, or the master socket
\* answers in the end, every wait ends.
C11_FirstContactWait ==
    /\ [](rl.waited => (rl.external /\ ~rl.upAtStart))
    /\ []((rl.external /\ ~rl.upAtStart /\ rl.sent) => (rl.waited /\ rl.contact))
    /\ (<>stopped \/ SF_vars(ExtWaitPollOk)) => (InWait ~> ~InWait)

\* The wait has ended on an answer of the master socket and "reload" was sent.
C11_Witness ==
    rl.external /\ rl.waited /\ rl.contact /\ rl.sent /\ ~rl.upAtStart

\* C12: a finished AcmeCheck has either returned one of its four errors with
\* count 0 and nothing enqueued, or no error with every storage needing
\* issuance enqueued and counted (the full set, not the delta).
C12_AcmeCheckResult ==
    ck.done =>
      \/ /\ ck.err \in {"not_started", "no_queue", "no_account", "not_leader"}
         /\ ck.count = 0 /\ ck.enq = {}
         /\ ck.err = "not_leader" => (ck.asked /\ ~ck.sawLeader)
         /\ ck.err = "no_queue" => ~opts.acmeQueue
      \/ /\ ck.err = "none"
         /\ up /\ opts.acmeQueue /\ ck.sawLeader
         /\ ck.enq = ck.need
         /\ ck.count = Cardinality(ck.need)

\* A check enqueued every storage although the delta was empty.
C12_Witness ==
    /\ ck.done /\ ck.err = "none" /\ ck.count = NumStorages
    /\ cfg.need = ck.need /\ BuildAcmeStoragesAdd(cfg) = {}

\* C13: a first tick (up = false at its start, no reload queue) that is not
\* aborted and has updated = false reloads synchronously, and when the
\* external process reports 2 workers it ends with up = true and
\* failedSince = nil; the tick after it, with updated = true and one command
\* applied, makes no reload and counts exactly one dynamic update.
C13_EndToEnd ==
    /\ ( /\ tk.done /\ tk.hadConfig /\ ~tk.upAtStart /\ ~opts.reloadQueue
         /\ tk.updaterRan /\ ~tk.updated /\ ~tk.writeFailed )
       => /\ tk.reloads = 1 /\ tk.full = 1 /\ tk.notifies = 0
          /\ (rl.external /\ rl.procsOk /\ rl.workers = 2)
               => (up /\ failedSince = NilTime /\ rl.result = "ok")
    /\ ( /\ tk.done /\ tk.afterFirst
         /\ tk.updated /\ tk.cmdCnt = 1 /\ ~tk.writeFailed )
       => /\ tk.upAtStart /\ up
          /\ tk.reloads = 0 /\ tk.notifies = 0 /\ tk.full = 0
          /\ tk.dyn = 1 /\ tk.noop = 0

\* The second tick of the scenario has returned.
C13_Witness ==
    /\ tk.done /\ tk.afterFirst /\ tk.updated /\ tk.cmdCnt = 1 /\ tk.dyn = 1
    /\ up /\ failedSince = NilTime /\ rl.workers = 2

\* C14 as stated: a tick with updated = true and commands applied records
\* the outcome in the health tracker, counts one dynamic update, makes and
\* enqueues no reload and leaves up alone.
C14_DynamicRecordsHealth ==
    (tk.done /\ tk.updated /\ tk.cmdCnt > 0)
      => /\ tk.health = 1 /\ tk.dyn = 1
         /\ tk.reloads = 0 /\ tk.notifies = 0 /\ up = tk.upAtStart
         /\ lastHealth = "ok" => failedSince = NilTime
         /\ lastHealth = "fail" => failedSince # NilTime

\* C14, amended: such a tick never reloads, never enqueues a reload and
\* leaves up alone; when its configuration was written it counts one dynamic
\* update, and the health tracker is called only if ValidateConfig is set
\* (cleared by a good check, set if not yet set by a bad one); when the write
\* failed it is a noop that touches neither.
C14_DynamicTick ==
    (tk.done /\ tk.updated /\ tk.cmdCnt > 0)
      => /\ tk.reloads = 0 /\ tk.notifies = 0 /\ tk.full = 0
         /\ up = tk.upAtStart
         /\ tk.wrote
         /\ IF tk.writeFailed
            THEN /\ tk.dyn = 0 /\ tk.noop = 1
                 /\ tk.health = 0 /\ ~tk.validated
                 /\ failedSince = tk.fsAtStart
            ELSE /\ tk.dyn = 1 /\ tk.noop = 0
                 /\ tk.validated <=> opts.validate
                 /\ IF opts.validate
                    THEN /\ tk.health = 1
                         /\ lastHealth = "ok" => failedSince = NilTime
                         /\ lastHealth = "fail" =>
                              /\ failedSince # NilTime
                              /\ tk.fsAtStart # NilTime => failedSince = tk.fsAtStart
                    ELSE /\ tk.health = 0
                         /\ failedSince = tk.fsAtStart

\* A dynamic tick whose validation failed has returned, and one without
\* validation left an earlier failure standing.
C14_Witness ==
    /\ tk.done /\ tk.updated /\ tk.cmdCnt > 0 /\ tk.dyn = 1
    /\ \/ tk.validated /\ lastHealth = "fail" /\ tk.fsAtStart = NilTime
       \/ ~opts.validate /\ tk.fsAtStart # NilTime

\* C15: once the Updater has run and the write step is behind, writeConfig
\* was called exactly if updated = false or commands were applied; a tick
\* stopped by a map failure writes nothing.
C15_WriteIffNeeded ==
    /\ (tk.updaterRan /\ pc # "writeConfig")
         => (tk.wrote <=> (~tk.updated \/ tk.cmdCnt > 0))
    /\ (tk.updaterRan /\ tk.updated /\ tk.cmdCnt = 0) => ~tk.wrote
    /\ ~tk.updaterRan => ~tk.wrote

\* A tick without reload has written the configuration for the commands it
\* applied.
C15_Witness ==
    tk.done /\ tk.updated /\ tk.cmdCnt > 0 /\ tk.wrote /\ ~tk.writeFailed

\* C16: a tick in which a map write or writeConfig failed returns as a noop:
\* IncUpdateNoop once and no other counter, no Reload and no Notify, up and
\* failedSince as at its start, Commit made once; after a map failure the
\* Updater has not run.
C16_AbortIsNoop ==
    /\ (tk.done /\ (tk.mapFailed \/ tk.writeFailed))
         => /\ tk.noop = 1 /\ tk.dyn = 0 /\ tk.full = 0
            /\ tk.reloads = 0 /\ tk.notifies = 0
            /\ tk.health = 0 /\ ~tk.validated
            /\ up = tk.upAtStart /\ failedSince = tk.fsAtStart
            /\ tk.commits = 1
    /\ tk.mapFailed => (~tk.updaterRan /\ ~tk.wrote)

\* A tick aborted by a map failure, with a reload failure outstanding, has
\* returned.
C16_Witness ==
    tk.done /\ tk.mapFailed /\ tk.commits = 1 /\ tk.fsAtStart # NilTime

\* C17: the tick after a tick that needed a reload and was aborted by a map
\* or writeConfig failure, itself not aborted and with no configuration
\* change in between, makes the reload (or enqueues it).
C17_NextTickRetries ==
    ( /\ tk.done /\ tk.hadConfig /\ tk.afterAbort /\ ~tk.changed
      /\ ~tk.mapFailed /\ ~tk.writeFailed )
      => tk.reloads + tk.notifies = 1

\* C18 as stated: the Commit is made before the outcome branch, that is
\* before the configuration is validated, before ReloadQueue.Notify and
\* before a synchronous reload starts.
C18_CommitBeforeOutcome ==
    (tk.validated \/ tk.notifies > 0 \/ tk.reloads > 0) => tk.commits = 1

\* C18, amended: the steps run in the order maps, Updater, writeConfig,
\* outcome; the Commit is deferred to the return of haproxyUpdate, so it is
\* made after the outcome branch (validation, Notify, the whole synchronous
\* reload) and after the deferred failure log, as the last call of the tick.
C18_CommitIsLast ==
    /\ pc \in {"writeMaps", "dynUpdate", "writeConfig", "outcome", "reload"}
         => tk.commits = 0
    /\ rl.pc # "none" => tk.commits = 0
    /\ tk.commits = 1 => (tk.defers = << >> /\ pc \in {"return", "idle"})
    /\ tk.updaterRan => ~tk.mapFailed
    /\ tk.wrote => tk.updaterRan
    /\ (tk.validated \/ tk.notifies > 0 \/ tk.reloads > 0 \/ tk.dyn > 0)
         => /\ tk.updaterRan /\ ~tk.writeFailed
            /\ NeedsWrite(tk.updated, tk.cmdCnt) => tk.wrote

\* The Commit has been made after a synchronous reload that has finished.
C18_Witness ==
    tk.commits = 1 /\ tk.reloads = 1 /\ rl.result # "none" /\ tk.health = 1

\* C19 as stated: without the random order the changed endpoints are sorted
\* whenever the step is reached; with it, all endpoints are shuffled exactly
\* on the ticks that need no reload (updated = true).
C19_ShuffleWhenNoReload ==
    tk.updaterRan =>
      IF ~opts.random
      THEN tk.sorted /\ ~tk.shuffled
      ELSE ~tk.sorted /\ (tk.shuffled <=> tk.updated)

\* C19, amended: with the random order all endpoints are shuffled exactly on
\* the ticks that need a reload (updated = false); nothing is sorted or
\* shuffled before the Updater has run.
C19_ShuffleWhenReload ==
    /\ tk.updaterRan =>
         IF ~opts.random
         THEN tk.sorted /\ ~tk.shuffled
         ELSE ~tk.sorted /\ (tk.shuffled <=> ~tk.updated)
    /\ ~tk.updaterRan => (~tk.sorted /\ ~tk.shuffled)

\* With the random order, a tick that reloaded has shuffled the endpoints.
C19_Witness ==
    tk.done /\ opts.random /\ ~tk.updated /\ tk.shuffled /\ tk.reloads = 1

\* The calls of SetCertExpireDate the tick made for the host h.
CertOpsOf(h) == { o \in tk.certOps : o.host = h }

\* C20: after updateCertExpiring, for a host in both the removed and the
\* added set with the same common name: with the same not-after no
\* SetCertExpireDate is made for it; with another not-after, the added host
\* having a certificate, the one call made for it sets the gauge of that
\* common name to the new not-after, and none clears it.
C20_CertGaugeOnRenewal ==
    (tk.certRan /\ tk.commits = 0) =>
      \A h \in DOMAIN cfg.hostsAdd \cap DOMAIN cfg.hostsDel :
        cfg.hostsAdd[h].cn = cfg.hostsDel[h].cn =>
          /\ \A o \in CertOpsOf(h) : o.at # NilTime
          /\ cfg.hostsAdd[h].notAfter = cfg.hostsDel[h].notAfter
               => CertOpsOf(h) = {}
          /\ (/\ cfg.hostsAdd[h].notAfter # cfg.hostsDel[h].notAfter
              /\ cfg.hostsAdd[h].tls)
               => CertOpsOf(h) = { [host |-> h, cn |-> cfg.hostsAdd[h].cn,
                                    at |-> cfg.hostsAdd[h].notAfter] }

\* A host was renewed (same common name, later not-after) and its gauge set.
C20_Witness ==
    /\ tk.certRan /\ tk.commits = 0
    /\ \E h \in DOMAIN cfg.hostsAdd \cap DOMAIN cfg.hostsDel :
         /\ cfg.hostsAdd[h].tls /\ cfg.hostsDel[h].tls
         /\ cfg.hostsAdd[h].cn = cfg.hostsDel[h].cn
         /\ cfg.hostsAdd[h].notAfter > cfg.hostsDel[h].notAfter
         /\ CertOpsOf(h) # {}

\* C21 as stated: a tick whose host change-set is empty does not clear the
\* whole set of certificate gauges; a tick that clears it has changed hosts.
C21_NoClearOnEmptyChange ==
    (tk.certRan /\ tk.commits = 0 /\ tk.certCleared)
      => (cfg.hostsAdd # NoHosts \/ cfg.hostsDel # NoHosts)

\* C21, amended: the whole set is cleared exactly on the ticks whose hosts
\* have no committed state yet (the first tick and the tick after a full
\* parsing), whatever their change-set holds; a tick on committed hosts never
\* clears it, and a tick that does not reach updateCertExpiring clears
\* nothing.
C21_ClearIffNoCommit ==
    /\ (tk.certRan /\ tk.commits = 0) => (tk.certCleared <=> ~cfg.hostsCommit)
    /\ ~tk.certRan => (~tk.certCleared /\ tk.certOps = {})
    /\ (tk.mapFailed \/ tk.writeFailed) => ~tk.certRan

\* After an earlier tick, a full parsing that left no host was followed by a
\* tick that cleared the gauges.
C21_Witness ==
    /\ tk.certRan /\ tk.commits = 0 /\ tk.prevTick /\ tk.certCleared
    /\ cfg.hostsAdd = NoHosts /\ cfg.hostsDel = NoHosts

\* C22: in a tick of the leader with a queue, before its Commit: without an
\* account nothing was added to or removed from the queue; with one, every
\* storage of the add-set was added and every storage of the remove-set
\* removed, a record of a single field included, whose enqueue is only not
\* logged.
C22_LeaderEnqueuesDelta ==
    (pc # "idle" /\ tk.acmeRan /\ tk.sawLeader /\ tk.commits = 0) =>
      IF ~tk.hasAccount
      THEN tk.enq = {} /\ tk.deq = {} /\ acmeQueue = tk.queueAtStart
      ELSE /\ tk.enq = BuildAcmeStoragesAdd(cfg)
           /\ tk.deq = BuildAcmeStoragesDel(cfg)
           /\ acmeQueue = (tk.queueAtStart \cup BuildAcmeStoragesAdd(cfg))
                            \ BuildAcmeStoragesDel(cfg)
           /\ tk.enqLogged = {s \in tk.enq : s >= 2}

\* The leader has enqueued a record of one field, unlogged, and removed
\* another storage that was in the queue.
C22_Witness ==
    /\ pc # "idle" /\ tk.acmeRan /\ tk.sawLeader /\ tk.hasAccount /\ tk.commits = 0
    /\ 1 \in tk.enq /\ 1 \notin tk.enqLogged
    /\ tk.deq # {} /\ tk.deq \subseteq tk.queueAtStart

\* C23: up changes only in the step in which Reload handles the result of
\* reloadHAProxy: a successful reload, embedded or external, leaves up = true
\* and failedSince = nil, a failed one leaves up as it was; no step takes up
\* from true to false.
C23_UpOnlyByReload ==
    [][ /\ up' # up => (pc = "reload" /\ rl.pc = "finish" /\ rl.result = "ok")
        /\ (pc = "reload" /\ rl.pc = "finish" /\ pc' = "return") =>
             IF rl.result = "ok"
             THEN up' /\ failedSince' = NilTime
             ELSE up' = up /\ failedSince' # NilTime
        /\ up => up' ]_vars

\* With up = true a reload has failed, and up is still true.
C23_Witness ==
    /\ up /\ rl.upAtStart /\ rl.pc = "none" /\ rl.result \notin {"ok", "none"}
    /\ failedSince # NilTime

\* C24: a tick made while no Config is attached does nothing: no queue
\* operation, no Signer call, no map or file write, no Updater call, no
\* Commit, no counter, no reload or Notify, and up, failedSince and the queue
\* are as at its start.
C24_NoConfigNoOp ==
    (~tk.hadConfig /\ (pc # "idle" \/ tk.done)) =>
      /\ ~tk.acmeRan /\ ~tk.signer /\ ~tk.hasAccount /\ ~tk.skipLog
      /\ tk.enq = {} /\ tk.deq = {} /\ acmeQueue = tk.queueAtStart
      /\ ~tk.mapFailed /\ ~tk.updaterRan /\ ~tk.wrote /\ ~tk.validated
      /\ ~tk.certRan /\ ~tk.failLogged
      /\ tk.commits = 0 /\ tk.defers = << >> /\ ~cfg.inSession
      /\ tk.noop = 0 /\ tk.dyn = 0 /\ tk.full = 0 /\ tk.health = 0
      /\ tk.reloads = 0 /\ tk.notifies = 0
      /\ up = tk.upAtStart /\ failedSince = tk.fsAtStart

\* The leader, with a queue, has made a tick without Config.
C24_Witness ==
    tk.done /\ ~tk.hadConfig /\ ~config /\ opts.acmeQueue /\ leader

\* C25: in an external reload with LoadServerState the servers state is
\* retrieved and persisted before "reload" is sent, and whatever comes of it
\* "reload" is sent next and the result of the reload is that of "reload"
\* and "show proc" alone; without LoadServerState nothing is retrieved.
C25_PersistNeverAborts ==
    /\ rl.pc = "persist" => (~rl.sent /\ rl.external /\ opts.loadState)
    /\ (rl.external /\ opts.loadState /\ rl.sent)
         => (rl.retrieved /\ rl.persisted # "none")
    /\ ~opts.loadState
         => (rl.persisted = "none" /\ ~rl.retrieved /\ ~rl.stateFile)
    /\ rl.stateFile <=> rl.persisted = "ok"
    /\ (rl.retrieved /\ rl.pc \in {"procs", "finish", "none"})
         => /\ rl.sent
            /\ rl.pc # "procs" =>
                 rl.result = IF ~rl.reloadOk THEN "reload_error"
                             ELSE ProcsResult(rl.procsOk, rl.workers)

\* The servers state could not be retrieved and the reload has succeeded.
C25_Witness ==
    /\ rl.pc = "none" /\ rl.persisted = "retrieve_failed"
    /\ rl.sent /\ rl.result = "ok" /\ up

\* C26: the Signer's account is set up (AcmeConfig, AcmeAccount) and the
\* queue changed only by a replica that is leader, in the tick and in
\* AcmeCheck.
C26_OnlyLeaderMutates ==
    /\ tk.signer => tk.sawLeader
    /\ (tk.enq # {} \/ tk.deq # {}) => tk.sawLeader
    /\ ck.signer => ck.signerAsLeader
    /\ ck.enq # {} => ck.sawLeader

\* C27: CalcIdleMetric calls AddIdleFactor only when up was true, "show
\* info" succeeded and the reply holds an Idle_pct field with a valid
\* integer; when the field is missing or its value is no valid integer, an
\* error is logged and AddIdleFactor is not called.
C27_IdleOnlyWhenValid ==
    hist.idle.called =>
      /\ hist.idle.recorded
           => /\ hist.idle.up /\ hist.idle.cmdOk
              /\ hist.idle.found /\ ~hist.idle.atoiErr
      /\ (hist.idle.up /\ hist.idle.cmdOk /\ (~hist.idle.found \/ hist.idle.atoiErr))
           => (hist.idle.logged # "none" /\ ~hist.idle.recorded)

\* C28: a tick with a Config that has returned has called exactly one of
\* IncUpdateNoop, IncUpdateDynamic and IncUpdateFull, the tick that put the
\* reload on the reload queue included.
C28_ExactlyOneCounter ==
    (tk.done /\ tk.hadConfig) => tk.noop + tk.dyn + tk.full = 1

\* C29: updateSuccessful is called at most once in a tick, and only in a
\* tick that reloaded haproxy or validated the configuration (which takes
\* ValidateConfig and a dynamic update); a returned tick that did neither,
\* be it a noop, aborted, only enqueuing a reload or a dynamic update without
\* validation, leaves failedSince and up as they were.
C29_HealthOnlyOnReloadOrCheck ==
    /\ tk.health <= 1
    /\ tk.health = 1 => (tk.reloads = 1 \/ tk.validated)
    /\ tk.validated => (opts.validate /\ tk.updated /\ tk.cmdCnt > 0)
    /\ (tk.done /\ tk.reloads = 0 /\ ~tk.validated)
         => /\ tk.health = 0
            /\ up = tk.upAtStart /\ failedSince = tk.fsAtStart

\* With a reload failure outstanding, a tick that found nothing to do has
\* returned and the failure stands.
C29_Witness ==
    /\ tk.done /\ tk.noop = 1 /\ ~tk.mapFailed /\ ~tk.writeFailed
    /\ tk.health = 0 /\ tk.fsAtStart # NilTime /\ failedSince = tk.fsAtStart

\* C30: a tick that starts and ends with a reload failure outstanding
\* (failedSince not nil) has logged the failure, whatever its outcome.
C30_FailureLoggedEveryTick ==
    (tk.done /\ tk.hadConfig /\ tk.fsAtStart # NilTime /\ failedSince # NilTime)
      => tk.failLogged

\* C31: in every state failedSince is set exactly if the last health event
\* given to the metrics was a failure; it is nil as long as none was given
\* and after a success, and a set failedSince is a time that has passed.
C31_FailedSinceIffLastFailed ==
    /\ failedSince # NilTime <=> lastHealth = "fail"
    /\ lastHealth \in {"none", "ok"} => failedSince = NilTime
    /\ failedSince # NilTime => failedSince \in 1..now

\* After a failed reload a later health event was a success, and failedSince
\* is nil again.
C31_Witness ==
    hist.failed /\ lastHealth = "ok" /\ failedSince = NilTime /\ tk.done

\* C32: a Reload run by the reload queue never overlaps a running tick: it
\* neither reads the Config nor writes up or failedSince between the
\* tick's SyncConfig and Commit, and no update of failedSince is lost:
\* failedSince is set exactly when the last reported health was a failure.
C32_QueueReloadNeverOverlapsTick ==
    /\ ~rl.raced
    /\ failedSince # NilTime <=> lastHealth = "fail"

====
